---- MODULE Spec2Model ----
(***************************************************************************)
(* Receipt parsing and reconciliation (src/receipt.py) and the storage of  *)
(* receipts (src/database.py).                                             *)
(*                                                                         *)
(* A text is a sequence of symbols.  A symbol is one character (a digit,   *)
(* a punctuation mark, a blank, a line feed) or a word of letters that the *)
(* patterns of the parser treat as a unit ("SUMME", "Milch", ...).  The    *)
(* regular expressions of Receipt.from_text are written out as matchers    *)
(* over symbol sequences, with the search order of re.search / re.match    *)
(* (leftmost start, greedy or lazy quantifiers).                           *)
(*                                                                         *)
(* A float is a fixed-point number counted in thousandths (1.29 is 1290),  *)
(* so that amounts below one cent exist.                                   *)
(***************************************************************************)
EXTENDS Integers, Sequences, FiniteSets, TLC

VARIABLES
    text,             \* the argument of the running / last from_text call
    pc,               \* position of the program
    non_empty_lines,  \* from_text: the normalized lines
    i,                \* from_text: the cursor of the item scan (1-based)
    items,            \* from_text: the items list being built
    receipt,          \* the Receipt returned or constructed (NoReceipt before)
    result,           \* the pair returned by validate_total (NoResult before)
    history,          \* the finished from_text calls: <<[text, outcome, receipt]>>
    item,             \* the Item that add_updating_second_line is called on
    db,               \* the database file: the committed rows of its two tables
    conn,             \* the ReceiptDatabase objects: connection, call position, locals
    receipts,         \* main.py: the process-wide list of downloaded attachments
    download          \* download_pdf_attachments: mailbox, call position, locals

vars == <<text, pc, non_empty_lines, i, items, receipt, result, history,
          item, db, conn, receipts, download>>
\* What the parser and the validation leave alone.
storeVars == <<item, db, conn, receipts, download>>
\* What the database layer leaves alone.
processVars == <<text, pc, non_empty_lines, i, items, receipt, result, history, item,
                 receipts, download>>
\* What the download leaves alone.
analysisVars == <<text, pc, non_empty_lines, i, items, receipt, result, history, item,
                  db, conn>>
\* What the Item method leaves alone.
parseVars == <<text, non_empty_lines, i, items, receipt, result, history>>

-----------------------------------------------------------------------------
(* Bounds of the model.                                                    *)

\* Lines of an input text.
MaxLines == 3
\* Lines of an input text when several calls of from_text follow each other.
MaxPureLines == 1
\* Calls of from_text in one process.
MaxCalls == 3
\* Largest sub-cent amount (in thousandths) given to the constructor.
MaxMilli == 12
\* Items of a directly constructed Receipt.
MaxItems == 2
\* Lines of an input text made of head and layout lines.
MaxLayoutLines == 3
\* Receipts handed to one call of insert_receipts_batch.
MaxBatch == 2
\* Items of a receipt handed to the database.
MaxDbItems == 1
\* Emails in the folder that download_pdf_attachments reads.
MaxEmails == 2
\* Calls of download_pdf_attachments in one process.
MaxDownloads == 3

-----------------------------------------------------------------------------
(* Symbols.                                                                *)

DigitChars == <<"0", "1", "2", "3", "4", "5", "6", "7", "8", "9">>
Digits == {DigitChars[k] : k \in 1..10}
NL == "\n"
\* Python's \s and str.strip(): blanks and line breaks.
Whitespace == {" ", NL}
\* [\d,]
DigitsAndCommas == Digits \cup {","}
\* BAR|EC-KARTE|KARTE
PaymentMethods == {"BAR", "EC-KARTE", "KARTE"}
\* [A-B]
TaxCategories == {"A", "B"}
\* What At answers beyond the end of a sequence: no symbol.
EOS == "<end>"
\* A failed match (None).
NoMatch == [matched |-> FALSE]

IsDigit(c) == c \in Digits
IsSpace(c) == c \in Whitespace
At(s, p) == IF p \in 1..Len(s) THEN s[p] ELSE EOS

\* The position after the longest run of symbols of cls that starts at p
\* (a greedy X+ or X*: p itself when the run is empty).
RECURSIVE SpanEnd(_, _, _)
SpanEnd(s, p, cls) ==
    IF p <= Len(s) /\ s[p] \in cls THEN SpanEnd(s, p + 1, cls) ELSE p

\* \d+,\d{2} at p: the position after the match, 0 when it does not match.
AmountEnd(s, p) ==
    LET q == SpanEnd(s, p, Digits)
    IN  IF q > p /\ At(s, q) = "," /\ IsDigit(At(s, q + 1)) /\ IsDigit(At(s, q + 2))
        THEN q + 3 ELSE 0

Min(S) == CHOOSE m \in S : \A n \in S : m <= n
Abs(n) == IF n < 0 THEN -n ELSE n

-----------------------------------------------------------------------------
(* str methods and float().                                                *)

\* s.replace(',', '.')
ReplaceComma(s) == [k \in 1..Len(s) |-> IF s[k] = "," THEN "." ELSE s[k]]

\* Mutant: only the left side trimmed.
Strip_Left(s) ==
    LET keep == {k \in 1..Len(s) : ~IsSpace(s[k])}
    IN  IF keep = {} THEN << >> ELSE SubSeq(s, Min(keep), Len(s))
\* s.strip()
Strip(s) ==
    LET keep == {k \in 1..Len(s) : ~IsSpace(s[k])}
    IN  IF keep = {} THEN << >>
        ELSE SubSeq(s, Min(keep), CHOOSE m \in keep : \A n \in keep : n <= m)

\* s.split('\n')
RECURSIVE Split(_)
Split(s) ==
    LET nls == {k \in 1..Len(s) : s[k] = NL}
    IN  IF nls = {} THEN <<s>>
        ELSE <<SubSeq(s, 1, Min(nls) - 1)>> \o Split(SubSeq(s, Min(nls) + 1, Len(s)))

\* s.startswith('---')
StartsWithPageMarker(s) == At(s, 1) = "-" /\ At(s, 2) = "-" /\ At(s, 3) = "-"

DigitVal(c) == CHOOSE n \in 0..9 : DigitChars[n + 1] = c

RECURSIVE DecVal(_)
DecVal(ds) ==
    IF ds = << >> THEN 0
    ELSE DecVal(SubSeq(ds, 1, Len(ds) - 1)) * 10 + DigitVal(ds[Len(ds)])

\* Thousandths in one unit.
Unit == 10 * 10 * 10

\* Whether float(s) accepts s, for s made of digits and points: at least one
\* digit and at most one point.  float(s) raises ValueError otherwise.
IsFloatLiteral(s) ==
    /\ \A k \in 1..Len(s) : s[k] \in Digits \cup {"."}
    /\ \E k \in 1..Len(s) : IsDigit(s[k])
    /\ Cardinality({k \in 1..Len(s) : s[k] = "."}) <= 1

\* float(s) in thousandths, for s that IsFloatLiteral accepts (digits after
\* the third decimal are below the resolution).
Float(s) ==
    LET dots == {k \in 1..Len(s) : s[k] = "."}
        dot  == IF dots = {} THEN Len(s) + 1 ELSE Min(dots)
        frac == SubSeq(s, dot + 1, Len(s))
        f3   == [k \in 1..3 |-> IF k <= Len(frac) THEN frac[k] ELSE "0"]
    IN  DecVal(SubSeq(s, 1, dot - 1)) * Unit + DecVal(f3)

\* float(group.replace(',', '.'))
Amount(group) == Float(ReplaceComma(group))
AmountRaises(group) == ~IsFloatLiteral(ReplaceComma(group))

-----------------------------------------------------------------------------
(* The patterns of from_text.  A search answers NoMatch or a record with   *)
(* matched = TRUE and the groups of the leftmost match.                    *)

\* re.search(r'(\d{5})\s+(.+)', line): five digits, blanks, the rest of the line.
CityMatchAt(s, p) ==
    LET w == SpanEnd(s, p + 5, Whitespace)
    IN  /\ \A k \in p..(p + 4) : IsDigit(At(s, k))
        /\ w > p + 5
        /\ w <= Len(s) /\ s[w] # NL
CityMatch(s) ==
    LET ps == {p \in 1..Len(s) : CityMatchAt(s, p)}
    IN  IF ps = {} THEN NoMatch
        ELSE LET p == Min(ps)
                 w == SpanEnd(s, p + 5, Whitespace)
                 nls == {k \in w..Len(s) : s[k] = NL}
                 e == IF nls = {} THEN Len(s) ELSE Min(nls) - 1
             IN  [matched |-> TRUE, g2 |-> SubSeq(s, w, e)]

\* Mutant: the marker only at the start of a line.
UidMatchAt_LineStart(s, p) ==
    /\ p = 1 \/ At(s, p - 1) = NL
    /\ At(s, p) = "UID" /\ At(s, p + 1) = " " /\ At(s, p + 2) = "Nr.:"
    /\ At(s, p + 3) = " " /\ At(s, p + 4) = "DE" /\ IsDigit(At(s, p + 5))
\* re.search(r'UID Nr\.: (DE\d+)', text)
UidMatchAt(s, p) ==
    /\ At(s, p) = "UID" /\ At(s, p + 1) = " " /\ At(s, p + 2) = "Nr.:"
    /\ At(s, p + 3) = " " /\ At(s, p + 4) = "DE" /\ IsDigit(At(s, p + 5))
UidMatch(s) ==
    LET ps == {p \in 1..Len(s) : UidMatchAt(s, p)}
    IN  IF ps = {} THEN NoMatch
        ELSE LET p == Min(ps)
             IN  [matched |-> TRUE, g1 |-> SubSeq(s, p + 4, SpanEnd(s, p + 5, Digits) - 1)]

\* The tail of item_pattern, \s+(\d+,\d{2})\s+[A-B](?:\s+\*)?$, from p on.
ItemTailAt(s, p) ==
    LET a == SpanEnd(s, p, Whitespace)
        e == AmountEnd(s, a)
        c == SpanEnd(s, e, Whitespace)
        f == SpanEnd(s, c + 1, Whitespace)
    IN  /\ a > p
        /\ e # 0
        /\ c > e
        /\ At(s, c) \in TaxCategories
        /\ \/ c = Len(s)
           \/ f > c + 1 /\ At(s, f) = "*" /\ f = Len(s)

\* re.match(r'^(.+?)\s+(\d+,\d{2})\s+[A-B](?:\s+\*)?$', line): the lazy name is
\* the shortest non-empty prefix after which the tail matches.
ItemMatch(s) ==
    LET ks == {k \in 1..Len(s) : (\A j \in 1..k : s[j] # NL) /\ ItemTailAt(s, k + 1)}
    IN  IF ks = {} THEN NoMatch
        ELSE LET k == Min(ks)
                 a == SpanEnd(s, k + 1, Whitespace)
             IN  [matched |-> TRUE, g1 |-> SubSeq(s, 1, k),
                  g2 |-> SubSeq(s, a, AmountEnd(s, a) - 1)]

\* re.match(r'^\s*(\d+)\s+Stk\s+x\s+(\d+,\d{2})$', line)
QuantityMatch(s) ==
    LET a == SpanEnd(s, 1, Whitespace)
        b == SpanEnd(s, a, Digits)
        c == SpanEnd(s, b, Whitespace)
        d == SpanEnd(s, c + 1, Whitespace)
        f == SpanEnd(s, d + 1, Whitespace)
        e == AmountEnd(s, f)
    IN  IF /\ b > a
           /\ c > b /\ At(s, c) = "Stk"
           /\ d > c + 1 /\ At(s, d) = "x"
           /\ f > d + 1
           /\ e = Len(s) + 1
        THEN [matched |-> TRUE, g1 |-> SubSeq(s, a, b - 1), g2 |-> SubSeq(s, f, e - 1)]
        ELSE NoMatch

\* \s+EUR\s+(\d+,\d{2}) from p on: the start of the amount, 0 when no match.
EurAmountAt(s, p) ==
    LET a == SpanEnd(s, p, Whitespace)
        b == SpanEnd(s, a + 1, Whitespace)
    IN  IF a > p /\ At(s, a) = "EUR" /\ b > a + 1 /\ AmountEnd(s, b) # 0
        THEN b ELSE 0

\* re.search(r'SUMME\s+EUR\s+(\d+,\d{2})', text)
TotalMatch(s) ==
    LET ps == {p \in 1..Len(s) : s[p] = "SUMME" /\ EurAmountAt(s, p + 1) # 0}
    IN  IF ps = {} THEN NoMatch
        ELSE LET b == EurAmountAt(s, Min(ps) + 1)
             IN  [matched |-> TRUE, g1 |-> SubSeq(s, b, AmountEnd(s, b) - 1)]

\* re.search(r'Geg\. (BAR|EC-KARTE|KARTE)\s+EUR\s+(\d+,\d{2})', text)
PaymentMatch(s) ==
    LET ps == {p \in 1..Len(s) :
                 /\ s[p] = "Geg." /\ At(s, p + 1) = " "
                 /\ At(s, p + 2) \in PaymentMethods
                 /\ EurAmountAt(s, p + 3) # 0}
    IN  IF ps = {} THEN NoMatch
        ELSE LET p == Min(ps)
                 b == EurAmountAt(s, p + 3)
             IN  [matched |-> TRUE, g1 |-> <<s[p + 2]>>,
                  g2 |-> SubSeq(s, b, AmountEnd(s, b) - 1)]

\* re.search(r'Rückgeld (?:BAR|EC-KARTE|KARTE)?\s+EUR\s+(\d+,\d{2})', text):
\* where the amount starts for a match that begins at p, 0 when none does.
ChangeAmountAt(s, p) ==
    IF At(s, p) = "Rückgeld" /\ At(s, p + 1) = " "
    THEN IF At(s, p + 2) \in PaymentMethods /\ EurAmountAt(s, p + 3) # 0
         THEN EurAmountAt(s, p + 3)
         ELSE EurAmountAt(s, p + 2)
    ELSE 0
ChangeMatch(s) ==
    LET ps == {p \in 1..Len(s) : ChangeAmountAt(s, p) # 0}
    IN  IF ps = {} THEN NoMatch
        ELSE LET b == ChangeAmountAt(s, Min(ps))
             IN  [matched |-> TRUE, g1 |-> SubSeq(s, b, AmountEnd(s, b) - 1)]

\* re.search(r'Gesamtbetrag\s+[\d,]+\s+([\d,]+)\s+[\d,]+', text): the group is a
\* whole run of digits and commas between blanks.
TaxMatchAt(s, p) ==
    LET a == SpanEnd(s, p + 1, Whitespace)
        b == SpanEnd(s, a, DigitsAndCommas)
        c == SpanEnd(s, b, Whitespace)
        d == SpanEnd(s, c, DigitsAndCommas)
        e == SpanEnd(s, d, Whitespace)
    IN  /\ s[p] = "Gesamtbetrag"
        /\ a > p + 1 /\ b > a /\ c > b /\ d > c /\ e > d
        /\ At(s, e) \in DigitsAndCommas
TaxMatch(s) ==
    LET ps == {p \in 1..Len(s) : TaxMatchAt(s, p)}
    IN  IF ps = {} THEN NoMatch
        ELSE LET c == SpanEnd(s, SpanEnd(s, SpanEnd(s, Min(ps) + 1, Whitespace),
                                          DigitsAndCommas), Whitespace)
             IN  [matched |-> TRUE, g1 |-> SubSeq(s, c, SpanEnd(s, c, DigitsAndCommas) - 1)]

\* \d{n} at p
DigitsAt(s, p, n) == \A k \in p..(p + n - 1) : IsDigit(At(s, k))

\* re.search(r'(\d{2}\.\d{2}\.\d{4})\s+(\d{2}:\d{2})\s+Bon-Nr\.:(\d+)', text)
\* Mutant: the transaction number written (\d*), so that an empty number matches.
DateTimeMatchAt_AnyNumber(s, p) ==
    LET t == SpanEnd(s, p + 10, Whitespace)
        b == SpanEnd(s, t + 5, Whitespace)
    IN  /\ DigitsAt(s, p, 2) /\ At(s, p + 2) = "."
        /\ DigitsAt(s, p + 3, 2) /\ At(s, p + 5) = "."
        /\ DigitsAt(s, p + 6, 4)
        /\ t > p + 10
        /\ DigitsAt(s, t, 2) /\ At(s, t + 2) = ":" /\ DigitsAt(s, t + 3, 2)
        /\ b > t + 5
        /\ At(s, b) = "Bon-Nr.:"
DateTimeMatchAt(s, p) ==
    LET t == SpanEnd(s, p + 10, Whitespace)
        b == SpanEnd(s, t + 5, Whitespace)
    IN  /\ DigitsAt(s, p, 2) /\ At(s, p + 2) = "."
        /\ DigitsAt(s, p + 3, 2) /\ At(s, p + 5) = "."
        /\ DigitsAt(s, p + 6, 4)
        /\ t > p + 10
        /\ DigitsAt(s, t, 2) /\ At(s, t + 2) = ":" /\ DigitsAt(s, t + 3, 2)
        /\ b > t + 5
        /\ At(s, b) = "Bon-Nr.:" /\ IsDigit(At(s, b + 1))
DateTimeMatch(s) ==
    LET ps == {p \in 1..Len(s) : DateTimeMatchAt(s, p)}
    IN  IF ps = {} THEN NoMatch
        ELSE LET p == Min(ps)
                 t == SpanEnd(s, p + 10, Whitespace)
                 b == SpanEnd(s, t + 5, Whitespace)
             IN  [matched |-> TRUE, g1 |-> SubSeq(s, p, p + 9),
                  g2 |-> SubSeq(s, t, t + 4),
                  g3 |-> SubSeq(s, b + 1, SpanEnd(s, b + 1, Digits) - 1)]

-----------------------------------------------------------------------------
(* Input texts: up to a bounded number of lines drawn from a vocabulary of  *)
(* receipt lines, joined by line feeds.                                     *)

LItem     == <<"Milch", " ", "1", ",", "2", "9", " ", "A">>
LQuantity == <<"2", " ", "Stk", " ", "x", " ", "0", ",", "6", "5">>
LTotal    == <<"SUMME", " ", "EUR", " ", "1", ",", "2", "9">>
LPayment  == <<"Geg.", " ", "BAR", " ", "EUR", " ", "2", ",", "0", "0">>
LChange   == <<"Rückgeld", " ", "BAR", " ", "EUR", " ", "0", ",", "7", "1">>
LTax      == <<"Gesamtbetrag", " ", "1", ",", "2", "1", " ", "0", ",", "0", "8",
               " ", "1", ",", "2", "9">>
\* A tax line whose middle field is not a decimal number.
LTaxBad   == <<"Gesamtbetrag", " ", "1", ",", "2", "1", " ", "0", ",", "0", ",", "8",
               " ", "1", ",", "2", "9">>
LDate     == <<"0", "1", ".", "0", "2", ".", "2", "0", "2", "4", " ",
               "1", "4", ":", "0", "5", " ", "Bon-Nr.:", "4", "7", "1", "1">>
\* Date, time and the transaction-number label without a number.
LDateNoNumber == <<"0", "1", ".", "0", "2", ".", "2", "0", "2", "4", " ",
                   "1", "4", ":", "0", "5", " ", "Bon-Nr.:">>

LineVocabulary ==
    {LItem, LQuantity, LTotal, LPayment, LChange, LTax, LTaxBad, LDate,
     LDateNoNumber}

\* '\n'.join(lines)
RECURSIVE JoinLines(_)
JoinLines(ls) ==
    IF ls = << >> THEN << >>
    ELSE IF Len(ls) = 1 THEN ls[1]
    ELSE ls[1] \o <<NL>> \o JoinLines(Tail(ls))

Texts(vocabulary, n) ==
    {JoinLines(ls) : ls \in UNION {[1..k -> vocabulary] : k \in 0..n}}

\* Texts parsed between two parses of one text: a receipt with a two-line
\* item and all trailing fields, and a text on which from_text raises.
Interferers ==
    {JoinLines(<<LItem, LQuantity, LTotal, LDate>>), JoinLines(<<LItem, LTaxBad>>)}

\* Lines of the head of a receipt and of its layout: the store, the street,
\* a postal code and city, a postal code inside a longer number and a city
\* of two words, a blank line, a page marker after a blank, and the tax-ID
\* marker between blanks with the country code DE and with another one.
LStore      == <<"REWE", " ", "Markt", " ", "GmbH">>
LStreet     == <<"Hauptstr.", " ", "1">>
LCity       == <<"1", "2", "3", "4", "5", " ", "Berlin">>
LCityWide   == <<"1", "2", "3", "4", "5", "6", " ", " ", "Berlin", " ", "Mitte">>
LBlank      == <<" ", " ">>
LPage       == <<" ", "-", "-", "-", " ", "Seite">>
LUid        == <<" ", "UID", " ", "Nr.:", " ", "DE", "1", "2", " ">>
LUidForeign == <<"UID", " ", "Nr.:", " ", "AT", "3", "4">>

LayoutVocabulary ==
    {LStore, LCity, LCityWide, LBlank, LPage, LUid, LUidForeign, LItem}

\* The receipt of the end-to-end scenario.
ExampleText ==
    JoinLines(<<LStore, LStreet, LCity, LItem, LQuantity, LTotal, LPayment,
                LChange, LDate>>)

-----------------------------------------------------------------------------
(* Item and Receipt.                                                       *)

NoReceipt == [none |-> TRUE]
NoResult == [none |-> TRUE]
NoItem == [none |-> TRUE]

\* Item(name, price_per_unit=0.0, quantity=1.0, total=0.0)
Item(name, price_per_unit, quantity, total) ==
    [name |-> name, price_per_unit |-> price_per_unit,
     quantity |-> quantity, total |-> total]

\* Receipt(): every field at its default.
DefaultReceipt ==
    [store_name |-> << >>, address |-> << >>, city |-> << >>, uid_nr |-> << >>,
     items |-> << >>, total_amount |-> 0, change |-> 0, payment_methode |-> << >>,
     taxes |-> 0, date |-> << >>, time |-> << >>, bon_nr |-> << >>,
     amount_given |-> 0]

\* No call of download_pdf_attachments yet: the list as main.py creates it.
NoDownload == [none |-> TRUE]
MailIdle == receipts = << >> /\ download = NoDownload

\* A database file without rows, and a process without connections.
EmptyDatabase == [receipts |-> << >>, items |-> << >>]
NoConnections == << >>

RECURSIVE SumTotals(_)
SumTotals(its) ==
    IF its = << >> THEN 0 ELSE its[1].total + SumTotals(Tail(its))

\* Receipt.get_calculated_total
CalculatedTotal(r) == SumTotals(r.items)

-----------------------------------------------------------------------------
(* Receipt.from_text.                                                      *)

\* The normalized lines: stripped, non-empty, not starting with '---'.
RECURSIVE KeepLines(_)
KeepLines(ls) ==
    IF ls = << >> THEN << >>
    ELSE LET stripped == Strip(ls[1])
         IN  (IF stripped # << >> /\ ~StartsWithPageMarker(stripped)
              THEN <<stripped>> ELSE << >>) \o KeepLines(Tail(ls))
Normalize(t) == KeepLines(Split(t))

\* Mutant: the items list shared between the calls instead of a fresh one.
EmptyItems_Stale == items
\* items = []
EmptyItems == << >>

\* The line the scan looks ahead to, and the cursor after each branch.
\* Mutants: the lookahead one line too far; the cursor one line too far after
\* a pair.
NextLineIndex_Two(c) == c + 2
AfterPair_Three(c) == c + 3
NextLineIndex(c) == c + 1
AfterPair(c) == c + 2
\* Mutant: two lines consumed where one was read.
AfterLine_Two(c) == c + 2
AfterLine(c) == c + 1

\* Mutant: the count taken for the unit price and the unit price for the count.
PairedItem_Swapped(m, q) ==
    Item(Strip(m.g1), Float(q.g1), Amount(q.g2), Amount(m.g2))
\* Item(name=name, quantity=quantity, price_per_unit=price_per_unit, total=total)
PairedItem(m, q) ==
    Item(Strip(m.g1), Amount(q.g2), Float(q.g1), Amount(m.g2))
\* Mutant: price_per_unit left at the default of Item.
SingleItem_NoPrice(m) ==
    Item(Strip(m.g1), 0, Unit, Amount(m.g2))
\* Item(name=name, quantity=1.0, price_per_unit=total, total=total)
SingleItem(m) ==
    Item(Strip(m.g1), Amount(m.g2), Unit, Amount(m.g2))

\* Whether the scan is at a line, and which branch it takes there.
AtLine == pc = "scan" /\ i <= Len(non_empty_lines)
HasQuantityLine(ls, c) ==
    /\ NextLineIndex(c) <= Len(ls)
    /\ QuantityMatch(ls[NextLineIndex(c)]).matched

\* Whether a float() of the item scan raises at line c.
ScanRaises(ls, c) ==
    LET m == ItemMatch(ls[c])
    IN  /\ m.matched
        /\ \/ AmountRaises(m.g2)
           \/ /\ HasQuantityLine(ls, c)
              /\ LET q == QuantityMatch(ls[NextLineIndex(c)])
                 IN  ~IsFloatLiteral(q.g1) \/ AmountRaises(q.g2)

\* Whether a float() of the trailing-field extraction raises.
TrailingRaises(t) ==
    \/ TotalMatch(t).matched /\ AmountRaises(TotalMatch(t).g1)
    \/ PaymentMatch(t).matched /\ AmountRaises(PaymentMatch(t).g2)
    \/ ChangeMatch(t).matched /\ AmountRaises(ChangeMatch(t).g1)
    \/ TaxMatch(t).matched /\ AmountRaises(TaxMatch(t).g1)

\* store_name and address: the first and the second normalized line.
StoreName(ls) == IF Len(ls) > 0 THEN ls[1] ELSE << >>
Address(ls) == IF Len(ls) > 1 THEN ls[2] ELSE << >>
\* Mutant: the city looked for in the second line.
AddressLine2_Second(ls) == IF Len(ls) > 1 THEN ls[2] ELSE << >>
\* address_line2: the third normalized line.
AddressLine2(ls) == IF Len(ls) > 2 THEN ls[3] ELSE << >>
\* city: group 2 of the postal-code pattern in address_line2, stripped.
City(ls) ==
    LET city_match == CityMatch(AddressLine2(ls))
    IN  IF city_match.matched THEN Strip(city_match.g2) ELSE << >>

\* The Receipt that from_text assembles from its locals.
Assemble(t, ls, its) ==
    LET total_match == TotalMatch(t)
        payment_match == PaymentMatch(t)
        change_match == ChangeMatch(t)
        tax_match == TaxMatch(t)
        date_time_match == DateTimeMatch(t)
        uid_match == UidMatch(t)
    IN  [store_name |-> StoreName(ls),
         address |-> Address(ls),
         city |-> City(ls),
         uid_nr |-> IF uid_match.matched THEN uid_match.g1 ELSE << >>,
         items |-> its,
         total_amount |-> IF total_match.matched THEN Amount(total_match.g1) ELSE 0,
         change |-> IF change_match.matched THEN Amount(change_match.g1) ELSE 0,
         payment_methode |-> IF payment_match.matched THEN payment_match.g1 ELSE << >>,
         taxes |-> IF tax_match.matched THEN Amount(tax_match.g1) ELSE 0,
         date |-> IF date_time_match.matched THEN date_time_match.g1 ELSE << >>,
         time |-> IF date_time_match.matched THEN date_time_match.g2 ELSE << >>,
         bon_nr |-> IF date_time_match.matched THEN date_time_match.g3 ELSE << >>,
         amount_given |-> IF payment_match.matched THEN Amount(payment_match.g2) ELSE 0]

Raised(t) == [text |-> t, outcome |-> "ValueError", receipt |-> NoReceipt]
Returned(t, r) == [text |-> t, outcome |-> "returned", receipt |-> r]

\* from_text is entered: the lines are split and normalized, the scan starts.
FromText ==
    /\ pc = "call"
    /\ non_empty_lines' = Normalize(text)
    /\ items' = EmptyItems
    /\ i' = 1
    /\ pc' = "scan"
    /\ UNCHANGED <<text, receipt, result, history>>
    /\ UNCHANGED storeVars

\* An item line followed by a quantity line: one Item from both lines.
ScanPair ==
    /\ AtLine
    /\ ItemMatch(non_empty_lines[i]).matched
    /\ HasQuantityLine(non_empty_lines, i)
    /\ IF ScanRaises(non_empty_lines, i)
       THEN /\ pc' = "raised"
            /\ history' = Append(history, Raised(text))
            /\ UNCHANGED <<i, items>>
       ELSE /\ items' = Append(items,
                   PairedItem(ItemMatch(non_empty_lines[i]),
                              QuantityMatch(non_empty_lines[NextLineIndex(i)])))
            /\ i' = AfterPair(i)
            /\ UNCHANGED <<pc, history>>
    /\ UNCHANGED <<text, non_empty_lines, receipt, result>>
    /\ UNCHANGED storeVars

\* An item line without a quantity line: one Item with the defaults.
ScanSingle ==
    /\ AtLine
    /\ ItemMatch(non_empty_lines[i]).matched
    /\ ~HasQuantityLine(non_empty_lines, i)
    /\ IF ScanRaises(non_empty_lines, i)
       THEN /\ pc' = "raised"
            /\ history' = Append(history, Raised(text))
            /\ UNCHANGED <<i, items>>
       ELSE /\ items' = Append(items, SingleItem(ItemMatch(non_empty_lines[i])))
            /\ i' = AfterLine(i)
            /\ UNCHANGED <<pc, history>>
    /\ UNCHANGED <<text, non_empty_lines, receipt, result>>
    /\ UNCHANGED storeVars

\* Any other line: skipped.
ScanSkip ==
    /\ AtLine
    /\ ~ItemMatch(non_empty_lines[i]).matched
    /\ i' = AfterLine(i)
    /\ UNCHANGED <<text, pc, non_empty_lines, items, receipt, result, history>>
    /\ UNCHANGED storeVars

\* The scan is over, the trailing fields are extracted, the Receipt is returned.
Return ==
    /\ pc = "scan" /\ i > Len(non_empty_lines)
    /\ ~TrailingRaises(text)
    /\ receipt' = Assemble(text, non_empty_lines, items)
    /\ pc' = "done"
    /\ history' = Append(history, Returned(text, receipt'))
    /\ UNCHANGED <<text, non_empty_lines, i, items, result>>
    /\ UNCHANGED storeVars

\* The scan is over and a float() of the trailing fields raises ValueError.
Raise ==
    /\ pc = "scan" /\ i > Len(non_empty_lines)
    /\ TrailingRaises(text)
    /\ pc' = "raised"
    /\ history' = Append(history, Raised(text))
    /\ UNCHANGED <<text, non_empty_lines, i, items, receipt, result>>
    /\ UNCHANGED storeVars

\* from_text is called again in the same process.
Reparse ==
    /\ pc \in {"done", "raised"}
    /\ Len(history) < MaxCalls
    /\ \E t \in {history[k].text : k \in 1..Len(history)} \cup Interferers :
          text' = t
    /\ pc' = "call"
    /\ receipt' = NoReceipt
    /\ UNCHANGED <<non_empty_lines, i, items, result, history>>
    /\ UNCHANGED storeVars

-----------------------------------------------------------------------------
(* Receipt(...) and Receipt.validate_total.                                *)

ConstructTotals == (0..MaxMilli) \cup {1290, 9990}
ConstructItemTotals == {2, 5, 1290}

\* Receipt(items=[Item(total=t), ...], total_amount=a)
Construct ==
    /\ pc = "new"
    /\ \E a \in ConstructTotals :
       \E ts \in UNION {[1..k -> ConstructItemTotals] : k \in 0..MaxItems} :
          receipt' = [DefaultReceipt EXCEPT
                        !.total_amount = a,
                        !.items = [k \in 1..Len(ts) |-> Item(<< >>, 0, Unit, ts[k])]]
    /\ pc' = "built"
    /\ UNCHANGED <<text, non_empty_lines, i, items, result, history>>
    /\ UNCHANGED storeVars

\* Mutant: the operands swapped.
Difference_Swapped(total_amount, calculated) == calculated - total_amount
\* total_amount - calculated
Difference(total_amount, calculated) == total_amount - calculated

\* Mutant: rounding down.
RoundCents_Floor(x) == {x - (x % (Unit \div 100))}
\* round(x, 2): the hundredth nearest to x.  Half-way between two hundredths
\* the binary value of the float decides, which a fixed-point amount does not
\* tell: either neighbour.
RoundCents(x) ==
    LET cent == Unit \div 100
        lo == x - (x % cent)
    IN  IF x % cent = 0 THEN {x}
        ELSE IF 2 * (x % cent) < cent THEN {lo}
        ELSE IF 2 * (x % cent) > cent THEN {lo + cent}
        ELSE {lo, lo + cent}

\* abs(difference) < 0.01
WithinTolerance(difference) == Abs(difference) < Unit \div 100

ValidateTotal ==
    /\ pc \in {"done", "built"}
    /\ \E difference \in RoundCents(Difference(receipt.total_amount, CalculatedTotal(receipt))) :
          result' = <<WithinTolerance(difference), difference>>
    /\ pc' = "validated"
    /\ UNCHANGED <<text, non_empty_lines, i, items, receipt, history>>
    /\ UNCHANGED storeVars

-----------------------------------------------------------------------------
(* Item.add_updating_second_line.                                          *)

\* Where "Stk x" stands in s.
StkXAt(s, p) == At(s, p) = "Stk" /\ At(s, p + 1) = " " /\ At(s, p + 2) = "x"
\* s.split("Stk x")
RECURSIVE SplitStkX(_)
SplitStkX(s) ==
    LET ps == {p \in 1..Len(s) : StkXAt(s, p)}
    IN  IF ps = {} THEN <<s>>
        ELSE <<SubSeq(s, 1, Min(ps) - 1)>> \o SplitStkX(SubSeq(s, Min(ps) + 3, Len(s)))

\* The Items the method is called on: Item("Milch", total=1.29), the Item
\* that from_text builds from an item line alone, and one with a count.
ItemObjects ==
    {Item(<<"Milch">>, 0, Unit, 1290),
     Item(<<"Milch">>, 1290, Unit, 1290),
     Item(<<"Milch">>, 430, 3 * Unit, 1290)}
\* The lines it is called with: two quantity lines, one of them between
\* blanks, a quantity line with two blanks before the x, and an item line.
LQuantityPadded == <<" ", "3", " ", "Stk", " ", "x", " ", "0", ",", "4", "3", " ">>
LQuantityWide == <<"2", " ", "Stk", " ", " ", "x", " ", "0", ",", "6", "5">>
SecondLines == {LQuantity, LQuantityPadded, LQuantityWide, LItem}

\* item.add_updating_second_line(text).  The unpacking of the two parts and
\* the two float() calls raise ValueError before anything is assigned; the
\* count is kept in a local name and only price_per_unit is assigned.
AddUpdatingSecondLine ==
    /\ pc = "item"
    /\ LET parts == SplitStkX(Strip(text))
       IN  IF Len(parts) # 2
           THEN /\ pc' = "item_raised"
                /\ item' = item
           ELSE LET count_string == Strip(parts[1])
                    price_string == ReplaceComma(Strip(parts[2]))
                IN  IF ~IsFloatLiteral(count_string) \/ ~IsFloatLiteral(price_string)
                    THEN /\ pc' = "item_raised"
                         /\ item' = item
                    ELSE /\ pc' = "item_updated"
                         /\ item' = [item EXCEPT !.price_per_unit = Float(price_string)]
    /\ UNCHANGED parseVars
    /\ UNCHANGED <<db, conn, receipts, download>>

-----------------------------------------------------------------------------
(* ReceiptDatabase (src/database.py).  Each ReceiptDatabase object has its *)
(* own sqlite3 connection to the one database file.  A connection sees the *)
(* committed rows and the rows of its own open transaction; the first      *)
(* INSERT of a call opens the transaction and takes the write lock of the  *)
(* file, commit and rollback end it.                                       *)

\* The tables are created outside the sources at hand.  Nothing names a
\* UNIQUE constraint over (date, time, bon_nr): insert_receipt looks for the
\* triple itself before it inserts.
SchemaKeyUnique == FALSE

\* The receipts handed to the database: the triple of the scenario or the
\* all-empty triple, with 0..MaxDbItems items.
KeyedReceipt(date, time, bon_nr, n) ==
    [DefaultReceipt EXCEPT
       !.date = date, !.time = time, !.bon_nr = bon_nr,
       !.items = [k \in 1..n |-> Item(<<"Milch">>, 1290, Unit, 1290)]]
DbReceipts ==
    {KeyedReceipt(SubSeq(LDate, 1, 10), SubSeq(LDate, 12, 16), SubSeq(LDate, 19, 22), n) :
        n \in 0..MaxDbItems}
    \cup {KeyedReceipt(<< >>, << >>, << >>, n) : n \in 0..MaxDbItems}
Batches(n) == UNION {[1..k -> DbReceipts] : k \in 0..n}

\* The names of the ReceiptDatabase objects that can be open.
Connections == {1, 2}

NoPending == [receipts |-> << >>, items |-> << >>]
NoStats == [none |-> TRUE]
\* A connected ReceiptDatabase before insert_receipts_batch(batch).
Connection(batch) ==
    [pc |-> "idle", batch |-> batch, n |-> 0, k |-> 0, receipt_id |-> 0,
     pending |-> NoPending, before |-> EmptyDatabase, ret |-> NoResult,
     stats |-> NoStats]

\* The values of the INSERT INTO receipts, with the row id.
ReceiptRow(id, r) ==
    [id |-> id, store_name |-> r.store_name, address |-> r.address,
     city |-> r.city, uid_nr |-> r.uid_nr, total_amount |-> r.total_amount,
     change |-> r.change, payment_methode |-> r.payment_methode,
     taxes |-> r.taxes, date |-> r.date, time |-> r.time, bon_nr |-> r.bon_nr,
     amount_given |-> r.amount_given]
\* The values of the INSERT INTO items.
ItemRow(receipt_id, it, r) ==
    [receipt_id |-> receipt_id, name |-> it.name,
     price_per_unit |-> it.price_per_unit, quantity |-> it.quantity,
     total |-> it.total, date |-> r.date, time |-> r.time]

\* The receipts rows that connection c sees.
View(c) == db.receipts \o conn[c].pending.receipts
\* Mutant: a triple without a number is never found.
Existing_Numbered(rows, r) ==
    {k \in 1..Len(rows) :
        /\ r.bon_nr # << >>
        /\ rows[k].date = r.date /\ rows[k].time = r.time /\ rows[k].bon_nr = r.bon_nr}
\* SELECT id FROM receipts WHERE date = ? AND time = ? AND bon_nr = ?
Existing(rows, r) ==
    {k \in 1..Len(rows) :
        rows[k].date = r.date /\ rows[k].time = r.time /\ rows[k].bon_nr = r.bon_nr}
\* cursor.lastrowid after the INSERT: one more than the largest row id.
LastRowId(rows) ==
    IF rows = << >> THEN 1
    ELSE 1 + (CHOOSE m \in {rows[k].id : k \in 1..Len(rows)} :
                 \A k \in 1..Len(rows) : rows[k].id <= m)
\* Another connection has an open transaction: it holds the write lock.
WriteLocked(c) ==
    \E d \in DOMAIN conn \ {c} : conn[d].pending # NoPending

\* Mutant: the except branches without the rollback.
RolledBack_Kept(pending) == pending
\* self.conn.rollback(): the rows of the open transaction are gone.
RolledBack(pending) == NoPending

\* The messages of insert_receipt, and whether "already exists" is in one.
AlreadyExists(r) == <<"Receipt already exists", r.date, r.time, r.bon_nr>>
Inserted(r, receipt_id) == <<"Successfully inserted receipt", Len(r.items), receipt_id>>
IntegrityError(e) == <<"Database integrity error", e>>
OtherError(e) == <<"Error inserting receipt", e>>
MentionsAlreadyExists(message) ==
    \E k \in 1..Len(message) : message[k] = "Receipt already exists"

\* Mutant: a failed receipt is not counted.
Tallied_ErrorsDropped(stats, ret, n, total) ==
    IF ret[1]
    THEN [stats EXCEPT !.success_count = @ + 1,
                       !.messages = Append(@, [index |-> n, of |-> total, mark |-> "inserted"])]
    ELSE IF MentionsAlreadyExists(ret[2])
    THEN [stats EXCEPT !.duplicate_count = @ + 1,
                       !.messages = Append(@, [index |-> n, of |-> total, mark |-> "duplicate"])]
    ELSE [stats EXCEPT !.messages = Append(@, [index |-> n, of |-> total, mark |-> "error"])]
\* The three branches of the loop body of insert_receipts_batch.
Tallied(stats, ret, n, total) ==
    IF ret[1]
    THEN [stats EXCEPT !.success_count = @ + 1,
                       !.messages = Append(@, [index |-> n, of |-> total, mark |-> "inserted"])]
    ELSE IF MentionsAlreadyExists(ret[2])
    THEN [stats EXCEPT !.duplicate_count = @ + 1,
                       !.messages = Append(@, [index |-> n, of |-> total, mark |-> "duplicate"])]
    ELSE [stats EXCEPT !.error_count = @ + 1,
                       !.messages = Append(@, [index |-> n, of |-> total, mark |-> "error"])]

\* The except branches of insert_receipt: rollback, (False, message).
Failed(c, message) ==
    /\ conn' = [conn EXCEPT ![c].pending = RolledBack(@),
                            ![c].ret = <<FALSE, message>>,
                            ![c].pc = "returned"]
    /\ UNCHANGED db

\* insert_receipts_batch(batch) is entered: the statistics start at zero.
InsertReceiptsBatch(c) ==
    /\ UNCHANGED processVars
    /\ c \in DOMAIN conn
    /\ conn[c].pc = "idle"
    /\ conn' = [conn EXCEPT ![c].stats = [success_count |-> 0, duplicate_count |-> 0,
                                          error_count |-> 0, messages |-> << >>],
                            ![c].n = 1,
                            ![c].pc = "loop"]
    /\ UNCHANGED db

\* insert_receipt(batch[n]) is entered: the SELECT for the triple, and the
\* return when a row is found.
InsertReceipt(c) ==
    /\ UNCHANGED processVars
    /\ c \in DOMAIN conn
    /\ conn[c].pc = "loop" /\ conn[c].n <= Len(conn[c].batch)
    /\ LET r == conn[c].batch[conn[c].n]
       IN  IF Existing(View(c), r) # {}
           THEN conn' = [conn EXCEPT ![c].ret = <<FALSE, AlreadyExists(r)>>,
                                     ![c].before = db,
                                     ![c].k = 0,
                                     ![c].pc = "returned"]
           ELSE conn' = [conn EXCEPT ![c].before = db,
                                     ![c].k = 0,
                                     ![c].pc = "insert"]
    /\ UNCHANGED db

\* The INSERT INTO receipts.  It opens the transaction; it raises
\* IntegrityError when a constraint of the schema refuses the row, and
\* OperationalError when another connection keeps the write lock longer than
\* the timeout of the connection.
InsertReceiptRow(c) ==
    /\ UNCHANGED processVars
    /\ c \in DOMAIN conn
    /\ conn[c].pc = "insert"
    /\ LET r == conn[c].batch[conn[c].n]
           id == LastRowId(View(c))
       IN  \/ /\ ~WriteLocked(c)
              /\ ~(SchemaKeyUnique /\ Existing(View(c), r) # {})
              /\ conn' = [conn EXCEPT ![c].pending.receipts = Append(@, ReceiptRow(id, r)),
                                      ![c].receipt_id = id,
                                      ![c].k = 1,
                                      ![c].pc = "items"]
              /\ UNCHANGED db
           \/ /\ ~WriteLocked(c)
              /\ Failed(c, IntegrityError("constraint failed"))
           \/ /\ WriteLocked(c)
              /\ Failed(c, OtherError("database is locked"))

\* The INSERT INTO items of the k-th item.
InsertItemRow(c) ==
    /\ UNCHANGED processVars
    /\ c \in DOMAIN conn
    /\ conn[c].pc = "items" /\ conn[c].k <= Len(conn[c].batch[conn[c].n].items)
    /\ LET r == conn[c].batch[conn[c].n]
       IN  \/ /\ conn' = [conn EXCEPT ![c].pending.items =
                                         Append(@, ItemRow(conn[c].receipt_id, r.items[conn[c].k], r)),
                                      ![c].k = @ + 1]
              /\ UNCHANGED db
           \/ Failed(c, IntegrityError("constraint failed"))

\* self.conn.commit() and the return of (True, message).  With another
\* connection on the file the commit can meet its lock and raise.
Commit(c) ==
    /\ UNCHANGED processVars
    /\ c \in DOMAIN conn
    /\ conn[c].pc = "items" /\ conn[c].k > Len(conn[c].batch[conn[c].n].items)
    /\ \/ /\ db' = [receipts |-> db.receipts \o conn[c].pending.receipts,
                    items |-> db.items \o conn[c].pending.items]
          /\ conn' = [conn EXCEPT ![c].pending = NoPending,
                                  ![c].ret = <<TRUE, Inserted(conn[c].batch[conn[c].n],
                                                              conn[c].receipt_id)>>,
                                  ![c].pc = "returned"]
       \/ /\ DOMAIN conn # {c}
          /\ Failed(c, OtherError("database is locked"))

\* The loop body of insert_receipts_batch after insert_receipt returned.
Tally(c) ==
    /\ UNCHANGED processVars
    /\ c \in DOMAIN conn
    /\ conn[c].pc = "returned"
    /\ conn' = [conn EXCEPT ![c].stats = Tallied(@, conn[c].ret, conn[c].n,
                                                 Len(conn[c].batch)),
                            ![c].n = @ + 1,
                            ![c].pc = "loop"]
    /\ UNCHANGED db

\* The loop is over: return stats.
BatchReturn(c) ==
    /\ UNCHANGED processVars
    /\ c \in DOMAIN conn
    /\ conn[c].pc = "loop" /\ conn[c].n > Len(conn[c].batch)
    /\ conn' = [conn EXCEPT ![c].pc = "finished"]
    /\ UNCHANGED db

-----------------------------------------------------------------------------
(* download_pdf_attachments (src/main.py).  A header or a file name is a   *)
(* sequence of symbols; an email is what email.message_from_bytes and      *)
(* walk() give: its headers and the sequence of its parts, the multipart   *)
(* container first.                                                        *)

\* None.
None == "<None>"

\* decode_header(h)[0], decoded: an encoded word gives the words inside it,
\* any other header is its own text.
DecodeHeader(h) ==
    IF Len(h) >= 2 /\ h[1] = "=?utf-8?q?" /\ h[Len(h)] = "?="
    THEN SubSeq(h, 2, Len(h) - 1) ELSE h

\* s.lower()
Lower(s) ==
    [k \in 1..Len(s) |->
        IF s[k] = ".PDF" THEN ".pdf" ELSE IF s[k] = "BON" THEN "bon" ELSE s[k]]
\* s.endswith('.pdf')
EndsWithPdf(s) == s # << >> /\ s[Len(s)] = ".pdf"

\* The payloads: a PDF of one page with an item line and a total line, and
\* bytes that PdfReader refuses.
OnePagePdf == [pages |-> <<JoinLines(<<LItem, LTotal>>)>>]
BrokenPdf == [pages |-> None]

\* "\n--- Page n ---\n" + page_text + "\n" for the pages from number n on.
RECURSIVE PagesText(_, _)
PagesText(pages, n) ==
    IF pages = << >> THEN << >>
    ELSE <<NL, "-", "-", "-", " ", "Page", " ", DigitChars[n + 1], " ", "-", "-", "-", NL>>
         \o pages[1] \o <<NL>> \o PagesText(Tail(pages), n + 1)
\* extract_text_from_pdf(pdf_bytes)
ExtractTextFromPdf(pdf_bytes) ==
    IF pdf_bytes.pages = None THEN <<"Error extracting text">>
    ELSE Strip(PagesText(pdf_bytes.pages, 1))

\* The parts of the emails: the multipart container, a text body, an
\* attachment, and a PDF shown inline without a Content-Disposition.
Container == [maintype |-> "multipart", disposition |-> None, filename |-> None,
              payload |-> None]
Body == [maintype |-> "text", disposition |-> None, filename |-> None,
         payload |-> None]
Attachment(filename, payload) ==
    [maintype |-> "application", disposition |-> "attachment", filename |-> filename,
     payload |-> payload]
InlinePdf == [maintype |-> "application", disposition |-> None,
              filename |-> <<"bon", ".pdf">>, payload |-> OnePagePdf]

\* The emails of the folder: one with a PDF attached; one with a PDF whose
\* name is an encoded word in capitals and cannot be read, a text file and
\* an inline PDF; and one without parts of its own, whose subject is empty.
MailPdf ==
    [subject |-> <<"Ihr", " ", "REWE", " ", "eBon">>, date |-> <<"Thu, 01 Feb 2024">>,
     parts |-> <<Container, Body, Attachment(<<"bon", ".pdf">>, OnePagePdf)>>]
MailMixed ==
    [subject |-> <<"=?utf-8?q?", "Ihr", " ", "eBon", "?=">>, date |-> <<"Fri, 02 Feb 2024">>,
     parts |-> <<Container,
                 Attachment(<<"=?utf-8?q?", "BON", ".PDF", "?=">>, BrokenPdf),
                 Attachment(<<"note", ".txt">>, BrokenPdf),
                 InlinePdf>>]
MailPlain ==
    [subject |-> << >>, date |-> <<"Sat, 03 Feb 2024">>, parts |-> <<Body>>]
EmailKinds == {MailPdf, MailMixed, MailPlain}
Mailboxes(n) == UNION {[1..k -> EmailKinds] : k \in 0..n}

\* The subject of an email as the loop keeps it.
Subject(mail) == IF mail.subject # << >> THEN DecodeHeader(mail.subject) ELSE mail.subject
\* email_id.decode() of the e-th id of the search.
EmailId(e) == <<DigitChars[e + 1]>>

\* Whether the loop over the parts takes the part: no container, a
\* Content-Disposition, a file name, and '.pdf' at the end of its lower case.
IsPdfAttachment(part) ==
    /\ part.maintype # "multipart"
    /\ part.disposition # None
    /\ part.filename # None /\ part.filename # << >>
    /\ EndsWithPdf(Lower(DecodeHeader(part.filename)))

\* receipt_data
ReceiptData(mail, e, part) ==
    [filename |-> DecodeHeader(part.filename), subject |-> Subject(mail),
     date |-> mail.date, email_id |-> EmailId(e), pdf_bytes |-> part.payload,
     extracted_text |-> ExtractTextFromPdf(part.payload)]

\* Mutant: the list started again with every entry.
AppendEntry_Alone(list, entry) == <<entry>>
\* receipts.append(receipt_data)
AppendEntry(list, entry) == Append(list, entry)

\* The process before a call: the folder and the calls so far.
Download(mailbox) ==
    [pc |-> "ready", mailbox |-> mailbox, e |-> 0, p |-> 0, before |-> << >>,
     ret |-> None, results |-> << >>]
Finished(status, value) == [status |-> status, value |-> value]

AtEmail == download.pc = "fetch" /\ download.e <= Len(download.mailbox)
AtPart ==
    /\ download.pc = "walk"
    /\ download.p <= Len(download.mailbox[download.e].parts)

\* download_pdf_attachments is entered and imap.select answers OK: the
\* search gives the ids of the emails.
SelectFolder ==
    /\ download # NoDownload /\ download.pc = "ready"
    /\ download' = [download EXCEPT !.pc = "fetch", !.e = 1, !.p = 0,
                                    !.before = receipts, !.ret = None]
    /\ UNCHANGED receipts
    /\ UNCHANGED analysisVars

\* download_pdf_attachments is entered and imap.select does not answer OK:
\* return [].
SelectFails ==
    /\ download # NoDownload /\ download.pc = "ready"
    /\ download' = [download EXCEPT !.pc = "returned", !.before = receipts,
                                    !.ret = << >>,
                                    !.results = Append(@, Finished("no folder", << >>))]
    /\ UNCHANGED receipts
    /\ UNCHANGED analysisVars

\* imap.fetch of the next email and its parsing.
FetchEmail ==
    /\ download # NoDownload /\ AtEmail
    /\ download' = [download EXCEPT !.pc = "walk", !.p = 1]
    /\ UNCHANGED receipts
    /\ UNCHANGED analysisVars

\* imap.fetch raises (the connection is lost): the call ends with the
\* exception, the entries appended so far stay in the list.
FetchRaises ==
    /\ download # NoDownload /\ AtEmail
    /\ download' = [download EXCEPT !.pc = "raised",
                                    !.results = Append(@, Finished("raised", None))]
    /\ UNCHANGED receipts
    /\ UNCHANGED analysisVars

\* A part that is a PDF attachment: its receipt_data is appended.
WalkAppend ==
    /\ download # NoDownload /\ AtPart
    /\ IsPdfAttachment(download.mailbox[download.e].parts[download.p])
    /\ receipts' = AppendEntry(receipts,
                      ReceiptData(download.mailbox[download.e], download.e,
                                  download.mailbox[download.e].parts[download.p]))
    /\ download' = [download EXCEPT !.p = @ + 1]
    /\ UNCHANGED analysisVars

\* Any other part: continue.
WalkSkip ==
    /\ download # NoDownload /\ AtPart
    /\ ~IsPdfAttachment(download.mailbox[download.e].parts[download.p])
    /\ download' = [download EXCEPT !.p = @ + 1]
    /\ UNCHANGED receipts
    /\ UNCHANGED analysisVars

\* The parts of the email are over: the next email.
WalkEnd ==
    /\ download # NoDownload /\ download.pc = "walk" /\ ~AtPart
    /\ download' = [download EXCEPT !.pc = "fetch", !.e = @ + 1]
    /\ UNCHANGED receipts
    /\ UNCHANGED analysisVars

\* The emails are over: return receipts, the list itself.
ReturnReceipts ==
    /\ download # NoDownload /\ download.pc = "fetch" /\ ~AtEmail
    /\ download' = [download EXCEPT !.pc = "returned", !.ret = receipts,
                                    !.results = Append(@, Finished("returned", receipts))]
    /\ UNCHANGED receipts
    /\ UNCHANGED analysisVars

\* download_pdf_attachments is called again in the same process.
DownloadAgain ==
    /\ download # NoDownload /\ download.pc \in {"returned", "raised"}
    /\ Len(download.results) < MaxDownloads
    /\ download' = [download EXCEPT !.pc = "ready"]
    /\ UNCHANGED receipts
    /\ UNCHANGED analysisVars

-----------------------------------------------------------------------------
(* Specifications.                                                         *)

Locals0 ==
    /\ non_empty_lines = << >>
    /\ i = 1
    /\ items = << >>
    /\ receipt = NoReceipt
    /\ result = NoResult
    /\ history = << >>
    /\ item = NoItem
    /\ db = EmptyDatabase
    /\ conn = NoConnections
    /\ MailIdle

\* One call of from_text on any text, or one Receipt constructed directly,
\* and its validation; or one Item and one call of its method.
Init ==
    \/ /\ \/ pc = "call" /\ text \in Texts(LineVocabulary, MaxLines) \cup {ExampleText}
          \/ pc = "new" /\ text = << >>
       /\ Locals0
    \/ /\ pc = "item"
       /\ text \in SecondLines
       /\ non_empty_lines = << >> /\ i = 1 /\ items = << >>
       /\ receipt = NoReceipt /\ result = NoResult /\ history = << >>
       /\ item \in ItemObjects
       /\ db = EmptyDatabase
       /\ conn = NoConnections
       /\ MailIdle

Next ==
    \/ FromText
    \/ ScanPair
    \/ ScanSingle
    \/ ScanSkip
    \/ Return
    \/ Raise
    \/ Construct
    \/ ValidateTotal
    \/ AddUpdatingSecondLine

Spec == Init /\ [][Next]_vars

\* Several calls of from_text, one after the other, in one process.
InitPure ==
    /\ pc = "call"
    /\ text \in Texts(LineVocabulary, MaxPureLines) \cup Interferers
    /\ Locals0

NextPure ==
    \/ FromText
    \/ ScanPair
    \/ ScanSingle
    \/ ScanSkip
    \/ Return
    \/ Raise
    \/ Reparse

SpecPure == InitPure /\ [][NextPure]_vars

\* One call of from_text on a text made of head and layout lines.
InitLayout ==
    /\ pc = "call"
    /\ text \in Texts(LayoutVocabulary, MaxLayoutLines)
    /\ Locals0

NextLayout ==
    \/ FromText
    \/ ScanSingle
    \/ ScanSkip
    \/ Return

SpecLayout == InitLayout /\ [][NextLayout]_vars

\* The parser at rest while the database layer runs.
ParserIdle ==
    /\ pc = "idle" /\ text = << >>
    /\ non_empty_lines = << >> /\ i = 1 /\ items = << >>
    /\ receipt = NoReceipt /\ result = NoResult /\ history = << >>
    /\ item = NoItem

\* One ReceiptDatabase on an empty database file and one batch.
InitDb ==
    /\ ParserIdle
    /\ MailIdle
    /\ db = EmptyDatabase
    /\ \E batch \in Batches(MaxBatch) : conn = <<Connection(batch)>>

\* Two ReceiptDatabase objects on one empty database file, each with one
\* receipt.
InitRace ==
    /\ ParserIdle
    /\ MailIdle
    /\ db = EmptyDatabase
    /\ \E r1 \in DbReceipts : \E r2 \in DbReceipts :
          conn = <<Connection(<<r1>>), Connection(<<r2>>)>>

NextDb ==
    \E c \in Connections :
       \/ InsertReceiptsBatch(c)
       \/ InsertReceipt(c)
       \/ InsertReceiptRow(c)
       \/ InsertItemRow(c)
       \/ Commit(c)
       \/ Tally(c)
       \/ BatchReturn(c)

\* One process with the empty list of main.py and a folder of emails.
InitMail ==
    /\ ParserIdle
    /\ db = EmptyDatabase
    /\ conn = NoConnections
    /\ receipts = << >>
    /\ \E mailbox \in Mailboxes(MaxEmails) : download = Download(mailbox)

NextMail ==
    \/ SelectFolder
    \/ SelectFails
    \/ FetchEmail
    \/ FetchRaises
    \/ WalkAppend
    \/ WalkSkip
    \/ WalkEnd
    \/ ReturnReceipts
    \/ DownloadAgain

SpecMail == InitMail /\ [][NextMail]_vars

SpecDb == InitDb /\ [][NextDb]_vars
SpecRace == InitRace /\ [][NextDb]_vars

-----------------------------------------------------------------------------
(* Properties.                                                             *)

Cent == Unit \div 100

\* The lines the item scan has passed that match the primary item pattern,
\* and the place in the items list of the Item of the primary line j.
IsPrimary(line) == ItemMatch(line).matched
IsSecondary(line) == QuantityMatch(line).matched
PrimaryPassed == {j \in 1..Len(non_empty_lines) : j < i /\ IsPrimary(non_empty_lines[j])}
Place(j) == Cardinality({k \in PrimaryPassed : k <= j})
FollowedBySecondary(j) ==
    j + 1 <= Len(non_empty_lines) /\ IsSecondary(non_empty_lines[j + 1])

\* C1: from_text returns a Receipt and never raises, whatever the text.
C1_NeverRaises == pc # "raised"

\* C2: date, time and bon_nr of a returned Receipt are all empty or all
\* non-empty.
C2_TripleOrNothing ==
    pc = "done" =>
       \/ receipt.date = << >> /\ receipt.time = << >> /\ receipt.bon_nr = << >>
       \/ receipt.date # << >> /\ receipt.time # << >> /\ receipt.bon_nr # << >>

C2_Witness ==
    /\ pc = "done"
    /\ receipt.date # << >> /\ receipt.time # << >> /\ receipt.bon_nr # << >>

\* C3, as stated: is_consistent is True exactly when total_amount and the sum
\* of the item totals differ by less than 0.01.
C3_ToleranceOneCent ==
    pc = "validated" =>
       (result[1] <=> Abs(receipt.total_amount - CalculatedTotal(receipt)) < Cent)

\* C3, amended: is_consistent is True whenever total_amount and the sum of the
\* item totals differ by less than 0.005, and False whenever they differ by
\* more than 0.005.
C3_ToleranceHalfCent ==
    pc = "validated" =>
       LET d == Abs(receipt.total_amount - CalculatedTotal(receipt))
       IN  /\ 2 * d < Cent => result[1] = TRUE
           /\ 2 * d > Cent => result[1] = FALSE

C3_Witness ==
    /\ pc = "validated"
    /\ Abs(receipt.total_amount - CalculatedTotal(receipt)) = 7
    /\ result[1] = FALSE

\* C4: validate_total always returns; the difference it returns is
\* total_amount minus the sum of the item totals rounded to a whole number of
\* cents, is_consistent says that the difference is below 0.01; one item of
\* 1.29 against a total of 9.99 gives (False, 8.70), no items against a total
\* of 0 gives (True, 0).
C4_ValidateResult ==
    /\ pc \in {"done", "built"} => ENABLED ValidateTotal
    /\ pc = "validated" =>
          LET d == receipt.total_amount - CalculatedTotal(receipt)
          IN  /\ result[2] % Cent = 0
              /\ 2 * Abs(result[2] - d) <= Cent
              /\ result[1] = (Abs(result[2]) < Cent)
              /\ (receipt.total_amount = 9990 /\ Len(receipt.items) = 1
                    /\ receipt.items[1].total = 1290) => result = <<FALSE, 8700>>
              /\ (receipt.total_amount = 0 /\ receipt.items = << >>)
                    => result = <<TRUE, 0>>

C4_Witness ==
    /\ pc = "validated"
    /\ receipt.total_amount = 9990
    /\ Len(receipt.items) = 1 /\ receipt.items[1].total = 1290
    /\ result = <<FALSE, 8700>>

\* C5: a primary item line directly followed by a quantity line gives one
\* Item with the total of the primary line and the quantity and unit price of
\* the line right after it, and the cursor moves on by two; an Item has a
\* quantity or unit price of its own only from the line right after its
\* primary line.
C5_PairedItems ==
    pc # "call" =>
       \A j \in PrimaryPassed :
          /\ Place(j) <= Len(items)
          /\ FollowedBySecondary(j) =>
                LET it == items[Place(j)]
                    q == QuantityMatch(non_empty_lines[j + 1])
                IN  /\ it.total = Amount(ItemMatch(non_empty_lines[j]).g2)
                    /\ it.quantity = Float(q.g1)
                    /\ it.price_per_unit = Amount(q.g2)
          /\ (\/ items[Place(j)].quantity # Unit
              \/ items[Place(j)].price_per_unit # items[Place(j)].total)
                => FollowedBySecondary(j)
C5_PairStep ==
    (AtLine /\ IsPrimary(non_empty_lines[i]) /\ FollowedBySecondary(i))
       => (i' = i + 2 /\ Len(items') = Len(items) + 1)
\* C5: the paired Items hold the values of their two lines in every state, and
\* every step at a primary line followed by a quantity line emits one Item and
\* moves the cursor on by two.
C5_Pairing == [](C5_PairedItems) /\ [][C5_PairStep]_vars

C5_Witness ==
    /\ pc = "done"
    /\ Len(non_empty_lines) = 3
    /\ Len(receipt.items) = 1
    /\ receipt.items[1] = Item(<<"Milch">>, 650, 2000, 1290)

\* C6: an Item whose primary line is not directly followed by a quantity line
\* (the last line included) has quantity 1.0 and price_per_unit equal to total.
C6_Defaults ==
    pc # "call" =>
       \A j \in PrimaryPassed :
          ~FollowedBySecondary(j) =>
             /\ Place(j) <= Len(items)
             /\ items[Place(j)].quantity = Unit
             /\ items[Place(j)].price_per_unit = items[Place(j)].total
             /\ items[Place(j)].total = Amount(ItemMatch(non_empty_lines[j]).g2)

C6_Witness ==
    /\ pc = "done"
    /\ Len(non_empty_lines) = 3
    /\ IsSecondary(non_empty_lines[1])
    /\ IsPrimary(non_empty_lines[3])
    /\ receipt.items = <<Item(<<"Milch">>, 1290, Unit, 1290)>>

\* C7: the items list has one Item per line matching the primary item
\* pattern, in the order of the lines; a line matching neither pattern gives
\* no Item and moves the cursor on by one; a consumed quantity line gives no
\* Item.
C7_ItemsSoFar ==
    pc # "call" =>
       /\ Len(items) = Cardinality(PrimaryPassed)
       /\ \A j \in PrimaryPassed :
             /\ items[Place(j)].name = Strip(ItemMatch(non_empty_lines[j]).g1)
             /\ items[Place(j)].total = Amount(ItemMatch(non_empty_lines[j]).g2)
       /\ pc = "done" => (i > Len(non_empty_lines) /\ receipt.items = items)
C7_SkipStep ==
    (AtLine /\ ~IsPrimary(non_empty_lines[i])) => (i' = i + 1 /\ items' = items)
\* C7: the items list is one Item per primary line passed, in order, in every
\* state, and every step at a line matching neither pattern emits nothing and
\* moves the cursor on by one.
C7_OnePerPrimary == [](C7_ItemsSoFar) /\ [][C7_SkipStep]_vars

C7_Witness ==
    /\ pc = "done"
    /\ Len(non_empty_lines) = 3
    /\ IsPrimary(non_empty_lines[1]) /\ IsSecondary(non_empty_lines[2])
    /\ IsPrimary(non_empty_lines[3])
    /\ Len(receipt.items) = 2

\* C8: a matched pattern whose number does not parse is dropped alone: its
\* field takes the default and the rest of the Receipt is produced as without
\* that match.
C8_MalformedDiscarded ==
    (/\ pc \in {"done", "raised"}
     /\ TaxMatch(text).matched
     /\ AmountRaises(TaxMatch(text).g1))
       => /\ pc = "done"
          /\ receipt.taxes = 0
          /\ receipt.items = items
          /\ receipt.total_amount =
                (IF TotalMatch(text).matched THEN Amount(TotalMatch(text).g1) ELSE 0)
          /\ receipt.date =
                (IF DateTimeMatch(text).matched THEN DateTimeMatch(text).g1 ELSE << >>)

\* C9: the trailing-field extractors are independent: a pattern that is
\* absent leaves its fields at the default, and every field has the value its
\* own pattern gives, whatever the other patterns find.
C9_Independent ==
    pc \in {"done", "raised"} =>
       /\ ~TotalMatch(text).matched => (pc = "done" /\ receipt.total_amount = 0)
       /\ ~PaymentMatch(text).matched =>
             (pc = "done" /\ receipt.payment_methode = << >> /\ receipt.amount_given = 0)
       /\ ~ChangeMatch(text).matched => (pc = "done" /\ receipt.change = 0)
       /\ ~TaxMatch(text).matched => (pc = "done" /\ receipt.taxes = 0)
       /\ ~DateTimeMatch(text).matched =>
             (pc = "done" /\ receipt.date = << >> /\ receipt.time = << >>
                /\ receipt.bon_nr = << >>)
       /\ TotalMatch(text).matched =>
             (pc = "done" /\ receipt.total_amount = Amount(TotalMatch(text).g1))
       /\ PaymentMatch(text).matched =>
             (pc = "done" /\ receipt.payment_methode = PaymentMatch(text).g1
                /\ receipt.amount_given = Amount(PaymentMatch(text).g2))
       /\ ChangeMatch(text).matched =>
             (pc = "done" /\ receipt.change = Amount(ChangeMatch(text).g1))
       /\ DateTimeMatch(text).matched =>
             (pc = "done" /\ receipt.date = DateTimeMatch(text).g1
                /\ receipt.time = DateTimeMatch(text).g2
                /\ receipt.bon_nr = DateTimeMatch(text).g3)
       /\ pc = "done" => receipt.items = items

\* C10: two calls of from_text on the same text end the same way and return
\* equal Receipts, whatever was parsed before and between them.
C10_Pure ==
    \A a, b \in 1..Len(history) :
       history[a].text = history[b].text => history[a] = history[b]

C10_Witness ==
    /\ Len(history) = 3
    /\ history[1].text = history[3].text
    /\ history[2].text # history[1].text
    /\ history[1].outcome = "returned"
    /\ history[1].receipt.items # << >>
    /\ history[2].outcome = "returned"
    /\ history[2].receipt.items # << >>
    /\ history[3] = history[1]

-----------------------------------------------------------------------------
(* The input lines of the text, told from its line feeds alone.            *)

Breaks == {p \in 1..Len(text) : text[p] = NL}
LineCount == Cardinality(Breaks) + 1
Break(n) == CHOOSE p \in Breaks : Cardinality({q \in Breaks : q <= p}) = n
InputLine(k) ==
    SubSeq(text, IF k = 1 THEN 1 ELSE Break(k - 1) + 1,
                 IF k = LineCount THEN Len(text) ELSE Break(k) - 1)
\* t is the line l without the blanks at its two ends.
IsTrimOf(t, l) ==
    \E a \in 1..(Len(l) + 1) : \E b \in 0..Len(l) :
       /\ t = SubSeq(l, a, b)
       /\ \A k \in 1..Len(l) : (k < a \/ k > b) => l[k] = " "
       /\ t = << >> \/ (t[1] # " " /\ t[Len(t)] # " ")
\* The line has a symbol that is no blank, and its first such symbols are
\* not three dashes.
Survives(l) ==
    \E p \in 1..Len(l) :
       /\ l[p] # " "
       /\ \A q \in 1..(p - 1) : l[q] = " "
       /\ ~(l[p] = "-" /\ At(l, p + 1) = "-" /\ At(l, p + 2) = "-")
Surviving == {k \in 1..LineCount : Survives(InputLine(k))}

\* C11: the normalized lines are exactly the input lines that are not empty
\* after trimming and do not begin with '---', each trimmed, in the order
\* of the input.
C11_Normalized ==
    pc # "call" =>
       /\ Len(non_empty_lines) = Cardinality(Surviving)
       /\ \A k \in Surviving :
             IsTrimOf(non_empty_lines[Cardinality({j \in Surviving : j <= k})],
                      InputLine(k))

\* Three input lines of which a blank one and a page marker are dropped and
\* the third is kept without its outer blanks.
C11_Witness ==
    /\ pc = "scan"
    /\ LineCount = 3
    /\ Surviving = {3}
    /\ InputLine(1) # InputLine(2)
    /\ non_empty_lines # <<InputLine(3)>>

\* C12: store_name is the first normalized line, address the second, city
\* comes from the third line and only when that line holds five digits,
\* blanks and a rest; with fewer than three lines the missing fields are
\* empty and from_text does not fail.
C12_Header ==
    LET n == Len(non_empty_lines)
        third == IF n >= 3 THEN non_empty_lines[3] ELSE << >>
        codes == {p \in 1..Len(third) :
                     /\ \A k \in p..(p + 4) : At(third, k) \in Digits
                     /\ At(third, p + 5) = " "}
    IN  /\ n < 3 => pc # "raised"
        /\ pc = "done" =>
              /\ receipt.store_name = IF n >= 1 THEN non_empty_lines[1] ELSE << >>
              /\ receipt.address = IF n >= 2 THEN non_empty_lines[2] ELSE << >>
              /\ IF codes = {} THEN receipt.city = << >>
                 ELSE \E w \in (Min(codes) + 6)..Len(third) :
                         /\ \A k \in (Min(codes) + 5)..(w - 1) : third[k] = " "
                         /\ third[w] # " "
                         /\ receipt.city = SubSeq(third, w, Len(third))

\* A postal code and city in the second line, taken verbatim as the address,
\* and one in the third line, from which the city of two words is taken.
C12_Witness ==
    /\ pc = "done"
    /\ Len(non_empty_lines) = 3
    /\ receipt.address = LCity
    /\ receipt.city = <<"Berlin", " ", "Mitte">>

\* C13: the receipt of the end-to-end scenario is parsed without an error
\* into city Berlin, one Item Milch (total 1.29, quantity 2, unit price
\* 0.65), total 1.29, payment BAR, 2.00 given, 0.71 change, date 01.02.2024,
\* time 14:05, number 4711, and validate_total answers (True, 0.0).
C13_Example ==
    text = ExampleText =>
       /\ pc # "raised"
       /\ pc \in {"done", "validated"} =>
             /\ receipt.city = <<"Berlin">>
             /\ receipt.items = <<Item(<<"Milch">>, 650, 2 * Unit, 1290)>>
             /\ receipt.total_amount = 1290
             /\ receipt.payment_methode = <<"BAR">>
             /\ receipt.amount_given = 2 * Unit
             /\ receipt.change = 710
             /\ receipt.date = <<"0", "1", ".", "0", "2", ".", "2", "0", "2", "4">>
             /\ receipt.time = <<"1", "4", ":", "0", "5">>
             /\ receipt.bon_nr = <<"4", "7", "1", "1">>
       /\ pc = "validated" => result = <<TRUE, 0>>

\* The scenario parsed and validated.
C13_Witness ==
    /\ text = ExampleText
    /\ pc = "validated"
    /\ Len(receipt.items) = 1
    /\ result[1]

\* The two-letter country codes of the texts.
CountryCodes == {"DE", "AT"}
\* The places of the text where the tax-ID marker is followed by one of the
\* codes and a digit.
Marked(codes) ==
    {p \in 1..Len(text) :
        /\ At(text, p) = "UID" /\ At(text, p + 1) = " " /\ At(text, p + 2) = "Nr.:"
        /\ At(text, p + 3) = " "
        /\ At(text, p + 4) \in codes
        /\ At(text, p + 5) \in Digits}
\* uid_nr is the code and the digits after the first such marker, and empty
\* without one.
UidIsMarked(codes) ==
    pc = "done" =>
       IF Marked(codes) = {} THEN receipt.uid_nr = << >>
       ELSE \E e \in 1..Len(text) :
               /\ e >= Min(Marked(codes)) + 5
               /\ \A k \in (Min(Marked(codes)) + 5)..e : text[k] \in Digits
               /\ At(text, e + 1) \notin Digits
               /\ receipt.uid_nr = SubSeq(text, Min(Marked(codes)) + 4, e)

\* C15 as stated: for a text with the tax-ID marker followed by a two-letter
\* country code and digits, uid_nr is that code and the digits, wherever the
\* marker stands; without the marker uid_nr is empty.
C15_AnyCountryCode == UidIsMarked(CountryCodes)

\* C15 amended: the same for the country code DE; a marker followed by
\* another code counts as no marker.
C15_GermanCode == UidIsMarked({"DE"})

\* The marker with DE inside a line that is not the first, after a marker
\* with another code.
C15_Witness ==
    /\ pc = "done"
    /\ receipt.uid_nr = <<"DE", "1", "2">>
    /\ \E p \in Marked({"DE"}) : p > 1 /\ text[p - 1] = " "
    /\ \E p \in Marked({"AT"}) : p < Min(Marked({"DE"}))

\* C16: the item scan ends.  The lines do not change during the scan, the
\* cursor stays within one place past them, every step of the scan reads a
\* line before the end and moves the cursor forward by 1 or 2, a step of 2
\* has both lines before the end, and the scan leaves the loop with the
\* cursor (counted from 0) at the number of lines or one past it: a scan of
\* n lines takes at most n steps.
C16_Cursor ==
    /\ pc = "scan" => (i >= 1 /\ i <= Len(non_empty_lines) + 1)
    /\ (pc = "done" \/ (pc = "scan" /\ ~AtLine)) =>
          (i - 1) \in {Len(non_empty_lines), Len(non_empty_lines) + 1}
C16_Step ==
    (pc = "scan" /\ pc' = "scan") =>
       /\ non_empty_lines' = non_empty_lines
       /\ i' \in {i + 1, i + 2}
       /\ i <= Len(non_empty_lines)
       /\ i' = i + 2 => i + 1 <= Len(non_empty_lines)
C16_Terminates ==
    /\ [](C16_Cursor)
    /\ [][C16_Step]_vars

\* A scan that took a step of two lines and a step of one line and is over.
C16_Witness ==
    /\ pc = "scan" /\ ~AtLine
    /\ Len(non_empty_lines) = 3
    /\ Len(items) = 1
    /\ items[1].quantity = 2 * Unit

\* C17: add_updating_second_line on a line 'N Stk x P,PP' sets the quantity
\* of the item to N and its price_per_unit to P.PP and leaves its name and
\* its total as they were.
C17_UpdateStep ==
    (pc = "item" /\ pc' = "item_updated" /\ QuantityMatch(Strip(text)).matched) =>
       /\ item'.quantity = Float(QuantityMatch(Strip(text)).g1)
       /\ item'.price_per_unit = Amount(QuantityMatch(Strip(text)).g2)
       /\ item'.name = item.name
       /\ item'.total = item.total
C17_SecondLine == [][C17_UpdateStep]_vars

-----------------------------------------------------------------------------
(* The database layer.                                                     *)

\* The triple that identifies a receipt or a row.
Triple(r) == <<r.date, r.time, r.bon_nr>>
\* No two of the rows share their triple.
DistinctTriples(rows) ==
    \A j \in 1..Len(rows) : \A k \in 1..Len(rows) :
       Triple(rows[j]) = Triple(rows[k]) => j = k
\* The receipt that connection c is at.
Current(c) == conn[c].batch[conn[c].n]

\* C14: on one connection no two stored receipts share (date, time, bon_nr),
\* the all-empty triple included; a call whose triple is stored returns
\* (False, '... already exists ...') and leaves both tables as they are.
C14_Stored ==
    /\ DistinctTriples(db.receipts)
    /\ \A c \in DOMAIN conn : DistinctTriples(View(c))
C14_DuplicateStep ==
    \A c \in DOMAIN conn :
       (/\ conn[c].pc = "loop" /\ conn[c].n <= Len(conn[c].batch)
        /\ conn'[c].pc # "loop"
        /\ \E k \in 1..Len(db.receipts) : Triple(db.receipts[k]) = Triple(Current(c)))
       => /\ conn'[c].pc = "returned"
          /\ conn'[c].ret[1] = FALSE
          /\ conn'[c].ret[2][1] = "Receipt already exists"
          /\ db' = db
          /\ conn'[c].pending = conn[c].pending
C14_NoDuplicates == [](C14_Stored) /\ [][C14_DuplicateStep]_vars

\* The second call with the all-empty triple returned as a duplicate and
\* the one row of the first call is stored.
C14_Witness ==
    /\ DOMAIN conn = {1}
    /\ conn[1].pc = "returned" /\ conn[1].n = 2
    /\ Triple(Current(1)) = << << >>, << >>, << >> >>
    /\ conn[1].ret = <<FALSE, AlreadyExists(Current(1))>>
    /\ Len(db.receipts) = 1

\* C18: insert_receipt stores all or nothing.  After a failure it has
\* returned (False, message), nothing of the call is stored or left in an
\* open transaction, and what was committed before is still there; after
\* (True, message) the receipt row and one item row for each of its items,
\* each with the id of that row, are stored after the earlier rows.
C18_AllOrNothing ==
    \A c \in DOMAIN conn :
       conn[c].pc = "returned" =>
          /\ conn[c].pending = NoPending
          /\ IF conn[c].ret[1]
             THEN LET r == Current(c)
                      id == conn[c].receipt_id
                  IN  /\ db.receipts = Append(conn[c].before.receipts, ReceiptRow(id, r))
                      /\ \A k \in 1..Len(conn[c].before.receipts) :
                            conn[c].before.receipts[k].id # id
                      /\ Len(db.items) = Len(conn[c].before.items) + Len(r.items)
                      /\ SubSeq(db.items, 1, Len(conn[c].before.items)) = conn[c].before.items
                      /\ \A k \in 1..Len(r.items) :
                            db.items[Len(conn[c].before.items) + k] = ItemRow(id, r.items[k], r)
             ELSE db = conn[c].before

\* The second call failed at its item row, after its receipt row was
\* inserted; the receipt of the first call is still stored.
C18_Witness ==
    /\ DOMAIN conn = {1}
    /\ conn[1].pc = "returned" /\ conn[1].n = 2
    /\ conn[1].ret = <<FALSE, IntegrityError("constraint failed")>>
    /\ conn[1].k = 1
    /\ Len(db.receipts) = 1 /\ db.items = << >>

\* The entries of the messages with a mark.
WithMark(stats, mark) == {j \in 1..Len(stats.messages) : stats.messages[j].mark = mark}

\* C19: insert_receipts_batch goes through the receipts in order and counts
\* each in exactly one of success_count, duplicate_count and error_count;
\* the counts add up to the number of receipts, messages has one entry for
\* each receipt, and a receipt that fails does not stop the later ones.
C19_Batch ==
    \A c \in DOMAIN conn :
       conn[c].pc \in {"loop", "returned", "insert", "items", "finished"} =>
          LET stats == conn[c].stats
              done == IF conn[c].pc = "finished" THEN Len(conn[c].batch)
                      ELSE conn[c].n - 1
          IN  /\ conn[c].pc = "finished" => conn[c].n = Len(conn[c].batch) + 1
              /\ stats.success_count + stats.duplicate_count + stats.error_count = done
              /\ Len(stats.messages) = done
              /\ \A j \in 1..Len(stats.messages) :
                    /\ stats.messages[j].index = j
                    /\ stats.messages[j].of = Len(conn[c].batch)
              /\ stats.success_count = Cardinality(WithMark(stats, "inserted"))
              /\ stats.duplicate_count = Cardinality(WithMark(stats, "duplicate"))
              /\ stats.error_count = Cardinality(WithMark(stats, "error"))

\* A batch whose first receipt failed and whose second was inserted.
C19_Witness ==
    /\ DOMAIN conn = {1}
    /\ conn[1].pc = "finished"
    /\ Len(conn[1].batch) = 2
    /\ conn[1].stats.error_count = 1 /\ conn[1].stats.success_count = 1
    /\ conn[1].stats.messages[1].mark = "error"
    /\ conn[1].stats.messages[2].mark = "inserted"

\* C20: when two connections interleave the existence check and the insert
\* for receipts with the same triple, at most one of the two is stored.
C20_AtMostOneStored ==
    \A j \in 1..Len(db.receipts) : \A k \in 1..Len(db.receipts) :
       (j # k) => Triple(db.receipts[j]) # Triple(db.receipts[k])

-----------------------------------------------------------------------------
(* The download.                                                           *)

IsPrefix(a, b) == Len(a) <= Len(b) /\ SubSeq(b, 1, Len(a)) = a
\* The places (email, part) of the folder that hold a PDF attachment: a part
\* with a Content-Disposition whose file name ends in .pdf, in small or in
\* capital letters, plain or inside an encoded word.
PdfPlaces(mailbox) ==
    {ep \in (1..Len(mailbox)) \X (1..4) :
        /\ ep[2] <= Len(mailbox[ep[1]].parts)
        /\ LET part == mailbox[ep[1]].parts[ep[2]]
           IN  /\ part.disposition = "attachment"
               /\ part.filename # None
               /\ \E k \in 1..Len(part.filename) :
                     /\ part.filename[k] \in {".pdf", ".PDF"}
                     /\ \A j \in (k + 1)..Len(part.filename) : part.filename[j] = "?="}
\* The calls that returned the list.
ReturnedCalls ==
    {k \in 1..Len(download.results) : download.results[k].status = "returned"}

\* C21: download_pdf_attachments appends one entry for each PDF attachment
\* of the folder to the process-wide list and returns that list; no step
\* removes or changes an entry, so the result of a later call that returned
\* begins with the result of each earlier call; a call whose folder
\* selection fails returns the empty list and leaves the list as it was.
C21_Results ==
    download # NoDownload =>
       /\ \A j \in ReturnedCalls : \A k \in ReturnedCalls :
             j <= k => IsPrefix(download.results[j].value, download.results[k].value)
       /\ \A k \in ReturnedCalls : IsPrefix(download.results[k].value, receipts)
       /\ \A k \in 1..Len(download.results) :
             download.results[k].status = "no folder" => download.results[k].value = << >>
       /\ (download.pc = "returned"
           /\ download.results[Len(download.results)].status = "returned") =>
             /\ download.ret = receipts
             /\ IsPrefix(download.before, receipts)
             /\ Len(receipts) = Len(download.before)
                                + Cardinality(PdfPlaces(download.mailbox))
C21_Step ==
    /\ IsPrefix(receipts, receipts')
    /\ Len(receipts') <= Len(receipts) + 1
    /\ (download # NoDownload /\ download.pc = "ready" /\ download'.pc = "returned") =>
          /\ download'.ret = << >>
          /\ receipts' = receipts
C21_Accumulates == [](C21_Results) /\ [][C21_Step]_vars

\* A call that returned two entries, a call whose folder selection failed,
\* and a call that returned four entries.
C21_Witness ==
    /\ download # NoDownload
    /\ download.pc = "returned"
    /\ Len(download.results) = 3
    /\ download.results[1].status = "returned" /\ Len(download.results[1].value) = 2
    /\ download.results[2].status = "no folder"
    /\ download.results[3].status = "returned" /\ Len(download.results[3].value) = 4

=============================================================================
